---- MODULE Spec2Model ----
(***************************************************************************)
(* Model of tracker.py: the command line entry, run_flow (the check        *)
(* pipeline and the browser session around it), interactive_record_flow,   *)
(* fetch_price_playwright (the price extractor with its inline text        *)
(* normalisation and regex fallback), ensure_dirs and send_telegram.       *)
(*                                                                         *)
(* Python's None is the empty sequence <<>> and an integer price v is the  *)
(* one-element sequence <<v>>.  Texts are sequences of characters; the     *)
(* rupee sign is the character "INR", its HTML entity is the single token  *)
(* "&#8377;" and the superscript two is "sup2".  The timestamp column of   *)
(* the log and of the screenshot name is not modelled.                     *)
(***************************************************************************)
EXTENDS Integers, Sequences, FiniteSets, TLC

VARIABLES
    configFile,     \* config.json on disk: [kind, products]
    stateFile,      \* state.json exists
    screenshotDir,  \* screenshots/ exists
    logExists,      \* price_log.csv exists
    logRows,        \* rows of price_log.csv, header included
    web,            \* the page each site serves, NoPage until first visited
    runs,           \* number of processes started so far
    past,           \* how each earlier process ended: whether run_flow returned, and its log
    argv,           \* sys.argv[1:] of the current process
    creds,          \* TELEGRAM_TOKEN / TELEGRAM_CHAT_ID read at import
    pc,             \* position of the current process
    exitCode,       \* exit status of the current process, Running until it ends
    error,          \* the uncaught exception that ended the process, or "none"
    playwright,     \* sync_playwright(): "off", "on", "stopped"
    browser,        \* "none", "open", "closed" (browser.close() reached)
    context,        \* "none", "open", "closed" (context.close() reached)
    cfg,            \* cfg.get("products", []) of the current process
    i,              \* index of the product the for loop is at
    page,           \* what the page handle renders during an extraction
    nav,            \* outcome of the extraction's page.goto: "none", "ok", "timeout"
    sel,            \* index of the next selector candidate
    tried,          \* selector candidates queried by the current extraction
    regexTried,     \* the current extraction ran the regex fallback
    normalized,     \* txt/digits/price_candidate of the extraction's last normalisation
    price,          \* return value of the last fetch_price_playwright
    attempts,       \* indices of the products fetch_price_playwright was called for
    readings,       \* rows appended to the log by this process
    calls,          \* messages passed to send_telegram by this process
    posts,          \* requests.post calls made by this process
    warned          \* indices of the products reported "[WARN] Could not extract"

vars == <<configFile, stateFile, screenshotDir, logExists, logRows, web, runs, past, argv,
          creds, pc, exitCode, error, playwright, browser, context, cfg, i,
          page, nav, sel, tried, regexTried, normalized, price, attempts, readings, calls,
          posts, warned>>

fsVars == <<configFile, stateFile, screenshotDir, logExists, logRows, web>>
procVars == <<runs, past, argv, creds>>
sessVars == <<playwright, browser, context>>
fetchVars == <<page, nav, sel, tried, regexTried, normalized, price>>
histVars == <<attempts, readings, calls, posts, warned>>

-----------------------------------------------------------------------------
(* Bounds *)

MaxProducts == 2    \* longest products array in config.json
MaxRuns == 2        \* processes started in one behaviour
MaxPresent == 2     \* selector candidates with an element on one page

Running == -1

None == <<>>
Some(v) == <<v>>

-----------------------------------------------------------------------------
(* Characters and the inline normalisation, tracker.py lines 101-105 and 117-119 *)

AsciiDigits == {"0", "1", "2", "3", "4", "5", "6", "7", "8", "9"}

\* str.isdigit(): true of the decimal digits and of digit-like characters
\* such as the superscript two
IsDigit(ch) == ch \in AsciiDigits \/ ch = "sup2"

\* the characters int() accepts
IsDecimal(ch) == ch \in AsciiDigits

\* \s of the regex and the characters str.strip() removes
IsSpace(ch) == ch = " "

DigitValue(ch) ==
    CASE ch = "0" -> 0 [] ch = "1" -> 1 [] ch = "2" -> 2 [] ch = "3" -> 3
      [] ch = "4" -> 4 [] ch = "5" -> 5 [] ch = "6" -> 6 [] ch = "7" -> 7
      [] ch = "8" -> 8 [] ch = "9" -> 9

RECURSIVE LStrip(_)
LStrip(s) == IF s # <<>> /\ IsSpace(Head(s)) THEN LStrip(Tail(s)) ELSE s

RECURSIVE RStrip(_)
RStrip(s) ==
    IF s # <<>> /\ IsSpace(s[Len(s)]) THEN RStrip(SubSeq(s, 1, Len(s) - 1)) ELSE s

\* txt.strip()
Strip(s) == RStrip(LStrip(s))

\* "".join(ch for ch in txt if ch.isdigit())
Digits(s) == SelectSeq(s, IsDigit)

RECURSIVE IntOf(_)
IntOf(d) == IF d = <<>> THEN 0 ELSE 10 * IntOf(SubSeq(d, 1, Len(d) - 1)) + DigitValue(d[Len(d)])

\* digits = ...; if digits: int(digits)
\* "ok" with the integer, "empty" when there is no digit (the if falls
\* through), "ValueError" when int() rejects the digit string
Normalize(txt) ==
    LET d == Digits(txt) IN
    IF d = <<>> THEN [status |-> "empty", value |-> 0]
    ELSE IF \E k \in 1..Len(d) : ~IsDecimal(d[k]) THEN [status |-> "ValueError", value |-> 0]
    ELSE [status |-> "ok", value |-> IntOf(d)]

-----------------------------------------------------------------------------
(* The regex fallback, tracker.py lines 115-119 *)

IsCurrency(ch) == ch = "INR" \/ ch = "&#8377;"

\* [\d,]
IsDigitOrComma(ch) == ch \in AsciiDigits \/ ch = ","

RECURSIVE SkipSpace(_, _)
SkipSpace(s, k) == IF k <= Len(s) /\ IsSpace(s[k]) THEN SkipSpace(s, k + 1) ELSE k

RECURSIVE RunEnd(_, _)
RunEnd(s, k) == IF k <= Len(s) /\ IsDigitOrComma(s[k]) THEN RunEnd(s, k + 1) ELSE k

\* the regex matches at position k: symbol, \s*, then at least one [\d,]
MatchesAt(s, k) ==
    /\ IsCurrency(s[k])
    /\ LET j == SkipSpace(s, k + 1) IN j <= Len(s) /\ IsDigitOrComma(s[j])

\* group(2) of the match at k
Group2At(s, k) ==
    LET j == SkipSpace(s, k + 1) IN SubSeq(s, j, RunEnd(s, j) - 1)

\* re.search(r"(INR|&#8377;)\s*([\d,]+)", content): the leftmost match
RegexSearch(s) ==
    LET hits == {k \in 1..Len(s) : MatchesAt(s, k)} IN
    IF hits = {} THEN [matched |-> FALSE, group2 |-> <<>>]
    ELSE LET k == CHOOSE h \in hits : \A g \in hits : h <= g
         IN [matched |-> TRUE, group2 |-> Group2At(s, k)]

\* lines 115-121: the value the fallback returns, None when it returns nothing
RegexPrice(s) ==
    LET m == RegexSearch(s) IN
    IF ~m.matched THEN None
    ELSE LET r == Normalize(m.group2) IN
         IF r.status = "ok" THEN Some(r.value) ELSE None

-----------------------------------------------------------------------------
(* URLs and the selector table, tracker.py lines 74-93 *)

UrlFlipkart == "https://www.Flipkart.com/item"
UrlAmazon == "https://www.amazon.in/item"
UrlShop == "https://shop.example/item"

\* url.lower()
Lower(u) == IF u = UrlFlipkart THEN "https://www.flipkart.com/item" ELSE u

\* needle in url_l
Contains(s, needle) ==
    \/ needle = "flipkart" /\ s = "https://www.flipkart.com/item"
    \/ needle = "amazon." /\ s = "https://www.amazon.in/item"

Selectors(url) ==
    LET url_l == Lower(url) IN
    IF Contains(url_l, "flipkart")
    THEN <<"div._30jeq3._16Jk6d", "div._30jeq3", "div._25b18c", "span._2dXhWJ">>
    ELSE IF Contains(url_l, "amazon.")
    THEN <<"span.a-price-whole", "#priceblock_ourprice", "#priceblock_dealprice",
           "span#priceblock_saleprice", "span.a-offscreen">>
    ELSE <<"span.price", "div.price", "p.price">>

-----------------------------------------------------------------------------
(* Pages: what a site renders for the selector candidates and as markup *)

Absent == [kind |-> "absent", text |-> <<>>]            \* loc.count() == 0
Raises == [kind |-> "raises", text |-> <<>>]            \* locator or inner_text raises
Text(t) == [kind |-> "text", text |-> t]                \* inner_text returns t

Texts == { <<"x">>, <<"INR", "5", " ">>, <<"0">>, <<"6", "sup2">> }

ElOutcomes == {Absent, Raises} \cup {Text(t) : t \in Texts}

ContentRaises == [kind |-> "raises", text |-> <<>>]     \* page.content() raises
Html(t) == [kind |-> "html", text |-> t]

Contents ==
    { ContentRaises,
      Html(<<"x", "5">>),
      Html(<<"INR", ",", "INR", "5">>),
      Html(<<"x", "INR", " ", "6">>),
      Html(<<"&#8377;", "1", ",", "0", "x">>) }

\* span.a-price-fraction next to span.a-price-whole, on amazon pages only
Fractions(url) ==
    IF Contains(Lower(url), "amazon.") /\ ~Contains(Lower(url), "flipkart")
    THEN {Absent, Text(<<"9">>)}
    ELSE {Absent}

NoPage == [els |-> <<>>, fraction |-> Absent, content |-> ContentRaises]

\* no normalisation done yet
NoNorm == [input |-> <<>>, status |-> "none", value |-> 0]

Normalized(txt) ==
    [input |-> txt, status |-> Normalize(txt).status, value |-> Normalize(txt).value]

\* every page with at most MaxPresent candidates present
AllPages(url) ==
    LET n == Len(Selectors(url))
        Present == ElOutcomes \ {Absent}
        Places == {S \in SUBSET (1..n) : Cardinality(S) <= MaxPresent}
    IN UNION { { [els |-> [k \in 1..n |-> IF k \in S THEN f[k] ELSE Absent],
                  fraction |-> fr, content |-> c] :
                   f \in [S -> Present], fr \in Fractions(url), c \in Contents } : S \in Places }

\* the pages of the pipeline runs: the price, if any, sits in the first
\* candidate or in the markup
SampleHeads ==
    { <<Absent, Html(<<"x", "5">>)>>,
      <<Absent, Html(<<"x", "INR", " ", "6">>)>>,
      <<Text(<<"0">>), Html(<<"x", "5">>)>>,
      <<Text(<<"INR", "5", " ">>), Html(<<"x", "5">>)>> }

SamplePages(url) ==
    { [els |-> [k \in 1..Len(Selectors(url)) |-> IF k = 1 THEN h[1] ELSE Absent],
       fraction |-> Absent, content |-> h[2]] : h \in SampleHeads }

Urls == {UrlFlipkart, UrlAmazon, UrlShop}

\* what each site may serve: in the pipeline runs, and in the runs of one extraction
SampleSites == [u \in Urls |-> SamplePages(u)]
AllSites == [u \in Urls |-> AllPages(u)]

-----------------------------------------------------------------------------
(* config.json *)

ProductPool ==
    { [id |-> "p1", name |-> "phone", url |-> UrlFlipkart, target_price |-> 5],
      [id |-> "p2", name |-> "book", url |-> UrlAmazon, target_price |-> 0],
      [id |-> "p3", name |-> "lamp", url |-> UrlShop],
      [id |-> "p4", name |-> "desk", target_price |-> 5] }

RECURSIVE SeqsUpTo(_, _)
SeqsUpTo(S, n) ==
    IF n = 0 THEN { <<>> }
    ELSE LET shorter == SeqsUpTo(S, n - 1) IN
         shorter \cup { Append(s, x) : s \in {t \in shorter : Len(t) = n - 1}, x \in S }

\* product lists whose ids are unique
ProductLists ==
    { s \in SeqsUpTo(ProductPool, MaxProducts) :
        \A a, b \in 1..Len(s) : a # b => s[a].id # s[b].id }

ConfigFiles ==
    { [kind |-> "missing", products |-> <<>>], [kind |-> "malformed", products |-> <<>>] }
    \cup { [kind |-> "ok", products |-> s] : s \in ProductLists }

Modes == { <<>>, <<"record">>, <<"RUN">>, <<"bogus">> }

Creds == [token : BOOLEAN, chat : BOOLEAN]

Header == [kind |-> "header", id |-> "id", name |-> "name", price |-> None]
Row(pid, name, p) == [kind |-> "data", id |-> pid, name |-> name, price |-> p]

-----------------------------------------------------------------------------
(* Initial state: a fresh working directory with some config.json, no process yet *)

Init ==
    /\ configFile \in ConfigFiles
    /\ stateFile = FALSE
    /\ screenshotDir = FALSE
    /\ logExists = FALSE
    /\ logRows = <<>>
    /\ web = [u \in Urls |-> NoPage]
    /\ runs = 0
    /\ past = <<>>
    /\ argv = <<>>
    /\ creds = [token |-> FALSE, chat |-> FALSE]
    /\ pc = "idle"
    /\ exitCode = Running
    /\ error = "none"
    /\ playwright = "off"
    /\ browser = "none"
    /\ context = "none"
    /\ cfg = <<>>
    /\ i = 0
    /\ page = NoPage
    /\ nav = "none"
    /\ sel = 0
    /\ tried = <<>>
    /\ regexTried = FALSE
    /\ normalized = NoNorm
    /\ price = None
    /\ attempts = <<>>
    /\ readings = <<>>
    /\ calls = <<>>
    /\ posts = <<>>
    /\ warned = <<>>

-----------------------------------------------------------------------------
(* Process start and exit *)

\* an uncaught exception: it unwinds through "with sync_playwright()" when
\* that block was entered, skipping the statements after the raise, and the
\* interpreter exits with status 1
Raise(err) ==
    /\ pc' = "exited"
    /\ exitCode' = 1
    /\ error' = err
    /\ playwright' = IF playwright = "on" THEN "stopped" ELSE playwright
    /\ UNCHANGED <<browser, context>>

\* sys.argv[1].lower()
ModeLower(m) == IF m = "RUN" THEN "run" ELSE m

\* python tracker.py <args>: module import, lines 22-31
Invoke(args, env) ==
    /\ pc \in {"idle", "exited"}
    /\ runs < MaxRuns
    /\ runs' = runs + 1
    /\ past' = IF pc = "exited"
               THEN Append(past, [completed |-> /\ Len(argv) >= 1
                                                /\ ModeLower(argv[1]) = "run"
                                                /\ error = "none",
                                  log |-> logRows])
               ELSE past
    /\ argv' = args
    /\ creds' = env
    /\ pc' = "main"
    /\ exitCode' = Running
    /\ error' = "none"
    /\ playwright' = "off"
    /\ browser' = "none"
    /\ context' = "none"
    /\ cfg' = <<>>
    /\ i' = 0
    /\ page' = NoPage
    /\ nav' = "none"
    /\ sel' = 0
    /\ tried' = <<>>
    /\ regexTried' = FALSE
    /\ normalized' = NoNorm
    /\ price' = None
    /\ attempts' = <<>>
    /\ readings' = <<>>
    /\ calls' = <<>>
    /\ posts' = <<>>
    /\ warned' = <<>>
    /\ UNCHANGED fsVars


\* lines 204-215
Main ==
    /\ pc = "main"
    /\ IF Len(argv) < 1
       THEN /\ pc' = "exited" /\ exitCode' = 1                  \* sys.exit(1)
       ELSE LET mode == ModeLower(argv[1]) IN
            IF mode = "record" THEN /\ pc' = "rec_launch" /\ exitCode' = exitCode
            ELSE IF mode = "run" THEN /\ pc' = "ensure_dirs" /\ exitCode' = exitCode
            ELSE /\ pc' = "exited" /\ exitCode' = 0             \* "Unknown mode", falls off the end
    /\ UNCHANGED <<fsVars, procVars, error, sessVars, cfg, i, fetchVars, histVars>>

-----------------------------------------------------------------------------
(* run_flow, lines 153-201 *)

\* ensure_dirs() without its existence test: the log is opened with "w" every time
EnsureDirsTruncates ==
    /\ pc = "ensure_dirs"
    /\ screenshotDir' = TRUE
    /\ logExists' = TRUE
    /\ logRows' = <<Header>>
    /\ pc' = "launch"
    /\ UNCHANGED <<configFile, stateFile, web, procVars, exitCode, error, sessVars,
                   cfg, i, fetchVars, histVars>>

\* ensure_dirs(), lines 48-54
EnsureDirs ==
    /\ pc = "ensure_dirs"
    /\ screenshotDir' = TRUE
    /\ logExists' = TRUE
    /\ logRows' = IF logExists THEN logRows ELSE <<Header>>
    /\ pc' = "launch"
    /\ UNCHANGED <<configFile, stateFile, web, procVars, exitCode, error, sessVars,
                   cfg, i, fetchVars, histVars>>

\* lines 156-170: sync_playwright(), chromium.launch, new_context, new_page;
\* the saved state.json is used when it exists
Launch(ok) ==
    /\ pc = "launch"
    /\ IF ok
       THEN /\ playwright' = "on"
            /\ browser' = "open"
            /\ context' = "open"
            /\ pc' = "load_config"
            /\ UNCHANGED <<exitCode, error>>
       ELSE /\ pc' = "exited"
            /\ exitCode' = 1
            /\ error' = "LaunchError"
            /\ playwright' = "stopped"
            /\ UNCHANGED <<browser, context>>
    /\ UNCHANGED <<fsVars, procVars, cfg, i, fetchVars, histVars>>

\* lines 172-173 and the cfg.get of line 175
LoadConfig ==
    /\ pc = "load_config"
    /\ IF configFile.kind = "missing" THEN Raise("FileNotFoundError") /\ UNCHANGED <<cfg, i>>
       ELSE IF configFile.kind = "malformed" THEN Raise("JSONDecodeError") /\ UNCHANGED <<cfg, i>>
       ELSE /\ cfg' = configFile.products
            /\ i' = 1
            /\ pc' = "loop"
            /\ UNCHANGED <<exitCode, error, sessVars>>
    /\ UNCHANGED <<fsVars, procVars, fetchVars, histVars>>

\* product.get("target_price")
Target(product) ==
    IF "target_price" \in DOMAIN product THEN Some(product.target_price) ELSE None

\* lines 175-182: the loop head, the subscripts and the call of
\* fetch_price_playwright; after the last product lines 199-201
LoopHead ==
    /\ pc = "loop"
    /\ IF i > Len(cfg)
       THEN /\ context' = "closed"                              \* context.close()
            /\ browser' = "closed"                              \* browser.close()
            /\ playwright' = "stopped"
            /\ pc' = "exited"
            /\ exitCode' = 0
            /\ UNCHANGED <<error, attempts>>
       ELSE IF {"id", "name", "url"} \subseteq DOMAIN cfg[i]
       THEN /\ attempts' = Append(attempts, i)
            /\ pc' = "goto"
            /\ UNCHANGED <<exitCode, error, sessVars>>
       ELSE /\ Raise("KeyError")
            /\ UNCHANGED attempts
    /\ UNCHANGED <<fsVars, procVars, cfg, i, fetchVars, readings, calls, posts, warned>>

-----------------------------------------------------------------------------
(* fetch_price_playwright, lines 57-126 *)

\* the outcomes of page.goto: loaded, PWTimeout, any other error
NavOutcomes == {"ok", "timeout", "error"}

\* page.goto without its except PWTimeout: a timeout propagates like any error
GotoTimeoutFatal(sites) ==
    /\ pc = "goto"
    /\ \E pg \in sites[cfg[i].url], outcome \in NavOutcomes :
          /\ web[cfg[i].url] \in {NoPage, pg}
          /\ IF outcome # "ok"
             THEN /\ Raise("NavigationError")
                  /\ nav' = outcome
                  /\ UNCHANGED <<page, web>>
             ELSE /\ page' = pg
                  /\ web' = [web EXCEPT ![cfg[i].url] = pg]
                  /\ nav' = outcome
                  /\ pc' = "screenshot"
                  /\ UNCHANGED <<exitCode, error, sessVars>>
    /\ UNCHANGED <<configFile, stateFile, screenshotDir, logExists, logRows, procVars,
                   cfg, i, sel, tried, regexTried, normalized, price, histVars>>

\* lines 59-62: page.goto of a site serving one of sites[url]; a timeout is
\* caught, any other error propagates out of fetch_price_playwright and out
\* of run_flow
Goto(sites) ==
    /\ pc = "goto"
    /\ \E pg \in sites[cfg[i].url], outcome \in NavOutcomes :
          /\ web[cfg[i].url] \in {NoPage, pg}
          /\ IF outcome = "error"
             THEN /\ Raise("NavigationError")
                  /\ UNCHANGED <<page, nav, web>>
             ELSE /\ page' = pg
                  /\ web' = [web EXCEPT ![cfg[i].url] = pg]
                  /\ nav' = outcome
                  /\ pc' = "screenshot"
                  /\ UNCHANGED <<exitCode, error, sessVars>>
    /\ UNCHANGED <<configFile, stateFile, screenshotDir, logExists, logRows, procVars,
                   cfg, i, sel, tried, regexTried, normalized, price, histVars>>

\* lines 64-72: the screenshot, whose failure is caught, and the settle delay
Screenshot ==
    /\ pc = "screenshot"
    /\ pc' = "selectors"
    /\ sel' = 1
    /\ UNCHANGED <<fsVars, procVars, exitCode, error, sessVars, cfg, i, page, nav,
                   tried, regexTried, normalized, price, histVars>>

\* the selector loop without its try: an error of a candidate propagates
TrySelectorPropagates ==
    /\ pc = "selectors"
    /\ LET sels == Selectors(cfg[i].url)
           el == page.els[sel]
           r == Normalize(Strip(el.text))
       IN /\ tried' = Append(tried, sels[sel])
          /\ normalized' = IF el.kind = "text" THEN Normalized(Strip(el.text)) ELSE normalized
          /\ IF el.kind = "raises" \/ (el.kind = "text" /\ r.status = "ValueError")
             THEN /\ Raise("CandidateError")
                  /\ UNCHANGED <<price, sel>>
             ELSE /\ UNCHANGED <<exitCode, error, sessVars>>
                  /\ IF el.kind = "text" /\ r.status = "ok"
                     THEN /\ price' = Some(r.value)
                          /\ pc' = "fetched"
                          /\ sel' = sel
                     ELSE /\ price' = price
                          /\ sel' = sel + 1
                          /\ pc' = IF sel + 1 > Len(sels) THEN "regex" ELSE "selectors"
    /\ UNCHANGED <<fsVars, procVars, cfg, i, page, nav, regexTried, histVars>>

\* the selector loop without its return: a parsed price is kept and the loop goes on
TrySelectorNoReturn ==
    /\ pc = "selectors"
    /\ LET sels == Selectors(cfg[i].url)
           el == page.els[sel]
           r == Normalize(Strip(el.text))
       IN /\ tried' = Append(tried, sels[sel])
          /\ normalized' = IF el.kind = "text" THEN Normalized(Strip(el.text)) ELSE normalized
          /\ price' = IF el.kind = "text" /\ r.status = "ok" THEN Some(r.value) ELSE price
          /\ sel' = sel + 1
          /\ pc' = IF sel + 1 > Len(sels) THEN "regex" ELSE "selectors"
    /\ UNCHANGED <<fsVars, procVars, exitCode, error, sessVars, cfg, i, page, nav,
                   regexTried, histVars>>

\* lines 96-110: one iteration of the selector loop
TrySelector ==
    /\ pc = "selectors"
    /\ LET sels == Selectors(cfg[i].url)
           el == page.els[sel]
           r == Normalize(Strip(el.text))
       IN /\ tried' = Append(tried, sels[sel])
          /\ normalized' = IF el.kind = "text" THEN Normalized(Strip(el.text)) ELSE normalized
          /\ IF el.kind = "text" /\ r.status = "ok"
             THEN /\ price' = Some(r.value)                     \* return price_candidate
                  /\ pc' = "fetched"
                  /\ sel' = sel
             ELSE /\ price' = price                             \* continue
                  /\ sel' = sel + 1
                  /\ pc' = IF sel + 1 > Len(sels) THEN "regex" ELSE "selectors"
    /\ UNCHANGED <<fsVars, procVars, exitCode, error, sessVars, cfg, i, page, nav,
                   regexTried, histVars>>

\* lines 112-126: the regex over page.content(), then return None
RegexFallback ==
    /\ pc = "regex"
    /\ regexTried' = TRUE
    /\ price' = IF page.content.kind = "raises" THEN None ELSE RegexPrice(page.content.text)
    /\ normalized' = IF page.content.kind = "html" /\ RegexSearch(page.content.text).matched
                     THEN Normalized(RegexSearch(page.content.text).group2)
                     ELSE normalized
    /\ pc' = "fetched"
    /\ UNCHANGED <<fsVars, procVars, exitCode, error, sessVars, cfg, i, page, nav,
                   sel, tried, histVars>>

-----------------------------------------------------------------------------
(* run_flow, lines 183-197: what is done with the fetched price *)

\* lines 185-197 with a retry: a None price sends the loop back to the same product
PersistRetries ==
    /\ pc = "fetched"
    /\ IF price # None
       THEN /\ logRows' = Append(logRows, Row(cfg[i].id, cfg[i].name, price))
            /\ readings' = Append(readings, Row(cfg[i].id, cfg[i].name, price))
            /\ pc' = "alert"
            /\ UNCHANGED <<i, warned>>
       ELSE /\ warned' = Append(warned, i)
            /\ i' = i
            /\ pc' = "loop"
            /\ UNCHANGED <<logRows, readings>>
    /\ page' = NoPage
    /\ nav' = "none"
    /\ sel' = 0
    /\ tried' = <<>>
    /\ regexTried' = FALSE
    /\ normalized' = NoNorm
    /\ UNCHANGED <<configFile, stateFile, screenshotDir, logExists, web, procVars,
                   exitCode, error, sessVars, cfg, price, attempts, calls, posts>>

\* lines 185-190 and 196-197
Persist ==
    /\ pc = "fetched"
    /\ IF price # None
       THEN /\ logRows' = Append(logRows, Row(cfg[i].id, cfg[i].name, price))
            /\ readings' = Append(readings, Row(cfg[i].id, cfg[i].name, price))
            /\ pc' = "alert"
            /\ UNCHANGED <<i, warned>>
       ELSE /\ warned' = Append(warned, i)                      \* print("[WARN] ...")
            /\ i' = i + 1
            /\ pc' = "loop"
            /\ UNCHANGED <<logRows, readings>>
    /\ page' = NoPage                  \* the locals of the returned call are gone
    /\ nav' = "none"
    /\ sel' = 0
    /\ tried' = <<>>
    /\ regexTried' = FALSE
    /\ normalized' = NoNorm
    /\ UNCHANGED <<configFile, stateFile, screenshotDir, logExists, web, procVars,
                   exitCode, error, sessVars, cfg, price, attempts, calls, posts>>

\* the alert test without the comparison: any defined, non-zero target alerts
ShouldAlertAnyPrice(target, p) == target # None /\ target[1] # 0

\* target and price <= target
ShouldAlert(target, p) == target # None /\ target[1] # 0 /\ p[1] <= target[1]

Message(product, p, target) ==
    [kind |-> "Price alert", name |-> product.name, price |-> p[1],
     target |-> target[1], url |-> product.url]

\* send_telegram without its credentials test: the request is always made
AlertAlwaysPosts(delivered) ==
    /\ pc = "alert"
    /\ LET target == Target(cfg[i]) IN
       IF ShouldAlert(target, price)
       THEN LET msg == Message(cfg[i], price, target) IN
            /\ calls' = Append(calls, msg)
            /\ posts' = Append(posts, [msg |-> msg, ok |-> delivered])
       ELSE UNCHANGED <<calls, posts>>
    /\ i' = i + 1
    /\ pc' = "loop"
    /\ UNCHANGED <<fsVars, procVars, exitCode, error, sessVars, cfg, fetchVars,
                   attempts, readings, warned>>

\* send_telegram without its try: a failed request propagates out of run_flow
AlertPropagates(delivered) ==
    /\ pc = "alert"
    /\ LET target == Target(cfg[i])
           sends == ShouldAlert(target, price)
           requests == sends /\ creds.token /\ creds.chat
       IN /\ calls' = IF sends THEN Append(calls, Message(cfg[i], price, target)) ELSE calls
          /\ posts' = IF requests
                      THEN Append(posts, [msg |-> Message(cfg[i], price, target), ok |-> delivered])
                      ELSE posts
          /\ IF requests /\ ~delivered
             THEN Raise("RequestException") /\ i' = i
             ELSE /\ i' = i + 1
                  /\ pc' = "loop"
                  /\ UNCHANGED <<exitCode, error, sessVars>>
    /\ UNCHANGED <<fsVars, procVars, cfg, fetchVars, attempts, readings, warned>>

\* lines 192-195 with send_telegram, lines 34-45: the request is made only
\* with both credentials and its failure is caught
Alert(delivered) ==
    /\ pc = "alert"
    /\ LET target == Target(cfg[i]) IN
       IF ShouldAlert(target, price)
       THEN LET msg == Message(cfg[i], price, target) IN
            /\ calls' = Append(calls, msg)
            /\ posts' = IF creds.token /\ creds.chat
                        THEN Append(posts, [msg |-> msg, ok |-> delivered])
                        ELSE posts
       ELSE UNCHANGED <<calls, posts>>
    /\ i' = i + 1
    /\ pc' = "loop"
    /\ UNCHANGED <<fsVars, procVars, exitCode, error, sessVars, cfg, fetchVars,
                   attempts, readings, warned>>

-----------------------------------------------------------------------------
(* interactive_record_flow, lines 129-151 *)

\* lines 131-142: launch, context, page, then config.json
RecordLaunch(ok) ==
    /\ pc = "rec_launch"
    /\ IF ~ok
       THEN /\ pc' = "exited" /\ exitCode' = 1 /\ error' = "LaunchError"
            /\ playwright' = "stopped"
            /\ UNCHANGED <<browser, context, cfg, i>>
       ELSE IF configFile.kind # "ok"
       THEN /\ pc' = "exited" /\ exitCode' = 1
            /\ error' = IF configFile.kind = "missing" THEN "FileNotFoundError" ELSE "JSONDecodeError"
            /\ playwright' = "stopped"
            /\ browser' = "open" /\ context' = "open"
            /\ UNCHANGED <<cfg, i>>
       ELSE /\ playwright' = "on" /\ browser' = "open" /\ context' = "open"
            /\ cfg' = configFile.products
            /\ i' = 1
            /\ pc' = "rec_loop"
            /\ UNCHANGED <<exitCode, error>>
    /\ UNCHANGED <<fsVars, procVars, fetchVars, histVars>>

\* lines 143-146: open each product; nothing is caught here, and nothing of
\* the page a site serves is read
RecordVisit(sites) ==
    /\ pc = "rec_loop"
    /\ i <= Len(cfg)
    /\ IF ~({"name", "url"} \subseteq DOMAIN cfg[i])
       THEN Raise("KeyError") /\ i' = i
       ELSE \E outcome \in NavOutcomes :
              IF sites[cfg[i].url] = {} \/ outcome # "ok"
              THEN Raise("NavigationError") /\ i' = i
              ELSE /\ i' = i + 1
                   /\ pc' = "rec_loop"
                   /\ UNCHANGED <<exitCode, error, sessVars>>
    /\ UNCHANGED <<fsVars, procVars, cfg, fetchVars, histVars>>

\* lines 148-151: ENTER, storage_state, browser.close()
RecordSave ==
    /\ pc = "rec_loop"
    /\ i > Len(cfg)
    /\ stateFile' = TRUE
    /\ browser' = "closed"
    /\ playwright' = "stopped"
    /\ pc' = "exited"
    /\ exitCode' = 0
    /\ UNCHANGED <<configFile, screenshotDir, logExists, logRows, web, procVars, error,
                   context, cfg, i, fetchVars, histVars>>

-----------------------------------------------------------------------------
(* Specifications *)

Next ==
    \/ \E args \in Modes, env \in Creds : Invoke(args, env)
    \/ Main
    \/ EnsureDirs
    \/ \E ok \in BOOLEAN : Launch(ok)
    \/ LoadConfig
    \/ LoopHead
    \/ Goto(SampleSites)
    \/ Screenshot
    \/ TrySelector
    \/ RegexFallback
    \/ Persist
    \/ \E delivered \in BOOLEAN : Alert(delivered)
    \/ \E ok \in BOOLEAN : RecordLaunch(ok)
    \/ RecordVisit(SampleSites)
    \/ RecordSave

Spec == Init /\ [][Next]_vars

(* One call of fetch_price_playwright from run_flow, over every page: the *)
(* state is that of a run on a one-product config.json at line 182.       *)
InitFetch ==
    /\ \E product \in {q \in ProductPool : "url" \in DOMAIN q} :
          /\ configFile = [kind |-> "ok", products |-> <<product>>]
          /\ cfg = <<product>>
    /\ stateFile = FALSE
    /\ screenshotDir = TRUE
    /\ logExists = TRUE
    /\ logRows = <<Header>>
    /\ web = [u \in Urls |-> NoPage]
    /\ runs = 1
    /\ past = <<>>
    /\ argv = <<"run">>
    /\ creds \in Creds
    /\ pc = "goto"
    /\ exitCode = Running
    /\ error = "none"
    /\ playwright = "on"
    /\ browser = "open"
    /\ context = "open"
    /\ i = 1
    /\ page = NoPage
    /\ nav = "none"
    /\ sel = 0
    /\ tried = <<>>
    /\ regexTried = FALSE
    /\ normalized = NoNorm
    /\ price = None
    /\ attempts = <<1>>
    /\ readings = <<>>
    /\ calls = <<>>
    /\ posts = <<>>
    /\ warned = <<>>

NextFetch ==
    \/ Goto(AllSites)
    \/ Screenshot
    \/ TrySelector
    \/ RegexFallback

SpecFetch == InitFetch /\ [][NextFetch]_vars

-----------------------------------------------------------------------------
(* Properties *)

Range(q) == {q[k] : k \in 1..Len(q)}

RunMode == Len(argv) >= 1 /\ ModeLower(argv[1]) = "run"

\* run_flow returned: the process ran the pipeline to its end
RunCompleted == pc = "exited" /\ RunMode /\ error = "none"

\* the rows this process appended for the k-th product
ReadingsOf(k) == {r \in 1..Len(readings) : readings[r].id = cfg[k].id}

\* the candidates of the rendered page whose element exists and whose text normalises
Good == {k \in 1..Len(page.els) :
            page.els[k].kind = "text" /\ Normalize(page.els[k].text).status = "ok"}

FirstGood == CHOOSE k \in Good : \A g \in Good : k <= g

\* C1: when a run completes, exactly one reading has been appended to the
\* price log for each configured product, products whose extraction returned
\* None included (recorded with an empty price).
C1_OneReadingPerProduct ==
    RunCompleted =>
        \A k \in 1..Len(cfg) :
            /\ Cardinality(ReadingsOf(k)) = 1
            /\ k \in Range(warned) => \E r \in ReadingsOf(k) : readings[r].price = None

\* C2: when navigation for a product raises an unexpected (non-timeout)
\* error, that product is recorded as NOT_FOUND and extraction is still
\* invoked for every product after it.
C2_Isolation ==
    (pc = "exited" /\ RunMode /\ error = "NavigationError") =>
        /\ \E r \in ReadingsOf(i) : readings[r].price = None
        /\ \A k \in (i + 1)..Len(cfg) : k \in Range(attempts)

\* C3: for every product whose extraction yielded a price p and which defines
\* a target_price t (0 included), a price alert is dispatched when p <= t and
\* none when p > t.
C3_AlertThreshold ==
    RunMode =>
        \A k \in 1..Len(cfg) :
            (k < i /\ "target_price" \in DOMAIN cfg[k]) =>
                \A r \in ReadingsOf(k) :
                    (readings[r].price[1] <= cfg[k].target_price)
                        <=> (\E c \in Range(calls) :
                                c.kind = "Price alert" /\ c.name = cfg[k].name)

\* C4: for every product whose extraction outcome is NOT_FOUND a warning
\* notification, distinct from a price alert, is dispatched.
C4_WarningOnNotFound ==
    RunMode =>
        \A k \in Range(warned) :
            \E c \in Range(calls) : c.kind # "Price alert" /\ c.name = cfg[k].name

\* C5: on every exit path of run_flow after the browser is launched,
\* context.close and browser.close are reached before run_flow exits.
C5_Teardown ==
    (pc = "exited" /\ RunMode /\ browser # "none") =>
        (context = "closed" /\ browser = "closed")

\* C6: when some selector candidate's element exists and its text
\* normalises, fetch_price_playwright returns the normalised value of the
\* lowest-index such candidate, has queried exactly the candidates up to it
\* in list order, and has tried no later candidate and no regex fallback.
C6_FirstSuccess ==
    (pc = "fetched" /\ Good # {}) =>
        /\ price = Some(Normalize(page.els[FirstGood].text).value)
        /\ tried = SubSeq(Selectors(cfg[i].url), 1, FirstGood)
        /\ ~regexTried

\* C6 witness: the first candidate is absent, the second and a later one both
\* normalise to different values, and the call returned the second's value.
C6_Witness ==
    /\ pc = "fetched"
    /\ page.els[1] = Absent
    /\ 2 \in Good
    /\ \E k \in Good : k > 2 /\ Normalize(page.els[k].text).value
                                  # Normalize(page.els[2].text).value
    /\ price = Some(Normalize(page.els[2].text).value)
    /\ Len(tried) = 2

\* the digit runs that follow a currency symbol in the markup
PricedRuns(s) ==
    {k \in 1..Len(s) : MatchesAt(s, k) /\ \E j \in 1..Len(Group2At(s, k)) :
                                              Group2At(s, k)[j] \in AsciiDigits}

\* C7: the regex scan runs only after every candidate failed; when no
\* candidate yields a price and the markup contains a currency-prefixed run
\* of digits/commas the call returns the integer of that run's digits; when
\* neither succeeds it returns None.
C7_RegexFallback ==
    pc = "fetched" =>
        /\ regexTried => (Good = {} /\ tried = Selectors(cfg[i].url))
        /\ (Good = {} /\ page.content.kind = "html" /\ PricedRuns(page.content.text) # {})
              => \E k \in PricedRuns(page.content.text) :
                    price = Some(IntOf(SelectSeq(Group2At(page.content.text, k), IsDecimal)))
        /\ (Good = {} /\ (page.content.kind = "raises" \/ PricedRuns(page.content.text) = {}))
              => price = None

\* C8: the normalisation of any text returns the non-negative integer of the
\* concatenated digits or FAILURE, FAILURE exactly when the text has no digit
\* character, and never raises.
C8_NormalizerTotality ==
    normalized # NoNorm =>
        /\ normalized.status # "ValueError"
        /\ normalized.status = "empty"
              <=> (\A k \in 1..Len(normalized.input) : normalized.input[k] \notin AsciiDigits)
        /\ normalized.status = "ok" =>
              /\ normalized.value >= 0
              /\ normalized.value = IntOf(SelectSeq(normalized.input, IsDecimal))

\* C9: a run that completes the pipeline exits 0; the exit status is non-zero
\* only on setup errors (configuration, launch, bad invocation), never on a
\* per-product extraction error; an invocation that executes no pipeline
\* because its mode is unknown does not exit 0.
C9_ExitStatus ==
    pc = "exited" =>
        /\ RunCompleted => exitCode = 0
        /\ (RunMode /\ exitCode # 0)
              => error \in {"FileNotFoundError", "JSONDecodeError", "KeyError", "LaunchError"}
        /\ (Len(argv) >= 1 /\ ModeLower(argv[1]) \notin {"run", "record"}) => exitCode # 0

\* C10: a product entry without url is skipped and is not fatal: the run
\* goes on and every other product of the list is still checked.
C10_MissingUrlSkipped ==
    (pc = "exited" /\ RunMode) =>
        /\ error # "KeyError"
        /\ error = "none" =>
              \A k \in 1..Len(cfg) : "url" \in DOMAIN cfg[k] => k \in Range(attempts)

-----------------------------------------------------------------------------
(* Properties of the later claims *)

\* config.json is missing, unparseable, or has an entry without a required field
ConfigUnusable ==
    \/ configFile.kind # "ok"
    \/ \E k \in 1..Len(configFile.products) :
          ~({"id", "name", "url"} \subseteq DOMAIN configFile.products[k])

\* C11: with a missing or unparseable config.json, or a product entry that
\* lacks a required field, no product is extracted, logged or alerted in the
\* run, and the run ends with a non-zero exit status.
C11_UnusableConfigFatalAtStartup ==
    (RunMode /\ ConfigUnusable) =>
        /\ attempts = <<>>
        /\ readings = <<>>
        /\ calls = <<>>
        /\ pc = "exited" => exitCode # 0

\* C12: on an amazon page with both the whole and the fraction element, the
\* text normalised is their concatenation: the price returned is the integer
\* of the whole digits followed by the fraction digits.
C12_AmazonWholeFraction ==
    (/\ pc = "fetched"
     /\ Contains(Lower(cfg[i].url), "amazon.")
     /\ page.els[1].kind = "text"
     /\ page.fraction.kind = "text"
     /\ Normalize(page.els[1].text \o page.fraction.text).status = "ok")
        => price = Some(Normalize(page.els[1].text \o page.fraction.text).value)

\* the data rows of the log for the k-th product
LogRowsOf(k) == {r \in 1..Len(logRows) : logRows[r].kind = "data" /\ logRows[r].id = cfg[k].id}

IsPrefix(a, b) == Len(a) <= Len(b) /\ SubSeq(b, 1, Len(a)) = a

\* the process before this one ran the pipeline to its end
PreviousRunCompleted ==
    /\ Len(past) = 1
    /\ past[1].completed

\* C13: after the pipeline has run twice against unchanged pages the log has
\* exactly two rows per product, and the rows the first run wrote are still
\* there, unchanged, before the rows of the second.
C13_TwoRunsTwoRows ==
    (RunCompleted /\ PreviousRunCompleted) =>
        /\ \A k \in 1..Len(cfg) : Cardinality(LogRowsOf(k)) = 2
        /\ IsPrefix(past[1].log, logRows)

\* where the k-th product of the run is: 0 pending, 1 extracting, 2 logged
\* with its price and before the alert decision, 3 done
Stage(k) ==
    IF k < i THEN 3
    ELSE IF k > i THEN 0
    ELSE IF pc \in {"goto", "screenshot", "selectors", "regex", "fetched"} THEN 1
    ELSE IF pc = "exited" /\ error = "NavigationError" THEN 1
    ELSE IF pc = "alert" THEN 2
    ELSE 0

NoRepeat(q) == \A a, b \in 1..Len(q) : a # b => q[a] # q[b]

Configured == creds.token /\ creds.chat

\* C15: with the token or the chat id absent send_telegram makes no request
\* and returns normally: nothing is posted in the run, and the step that
\* calls it leaves the log as it is and moves on to the next product.
C15_DegradedNotification ==
    /\ []((RunMode /\ ~Configured) => posts = <<>>)
    /\ [][(pc = "alert" /\ ~Configured) =>
             /\ pc' = "loop" /\ i' = i + 1
             /\ error' = "none" /\ exitCode' = Running
             /\ logRows' = logRows]_vars

\* C15 witness: a completed run without credentials in which send_telegram
\* was called for the first of two products and both products were checked.
C15_Witness ==
    /\ RunCompleted
    /\ ~Configured
    /\ calls # <<>> /\ calls[1].name = cfg[1].name
    /\ posts = <<>>
    /\ attempts = <<1, 2>>

\* a candidate whose query or text raises, or whose digits int() rejects
Failing(el) == el.kind = "raises" \/ (el.kind = "text" /\ Normalize(el.text).status = "ValueError")

\* C16: when a selector candidate raises, the error stays inside
\* fetch_price_playwright: the candidate is abandoned without a price and the
\* next candidate in list order, or after the last one the regex, comes next.
C16_CandidateErrorContained ==
    [][(pc = "selectors" /\ Failing(page.els[sel])) =>
          /\ error' = "none" /\ exitCode' = Running
          /\ price' = None
          /\ sel' = sel + 1
          /\ pc' = IF sel < Len(Selectors(cfg[i].url)) THEN "selectors" ELSE "regex"]_vars

\* C16 witness: the first candidate raised and the call returned the price of the second.
C16_Witness ==
    /\ pc = "fetched"
    /\ page.els[1] = Raises
    /\ Len(tried) = 2
    /\ price # None

\* C17: after a navigation timeout the call goes on, through the screenshot
\* and settle delay, the selector candidates (each one of the list) and the
\* regex, and returns the price the loaded content gives or None; it never
\* ends in an error.
C17_NavigationTimeoutTolerated ==
    nav = "timeout" =>
        /\ error = "none" /\ exitCode = Running
        /\ pc \in {"screenshot", "selectors", "regex", "fetched"}
        /\ pc = "selectors" => sel \in 1..Len(Selectors(cfg[i].url))
        /\ pc = "fetched" =>
              /\ Good # {} => price = Some(Normalize(page.els[FirstGood].text).value)
              /\ Good = {} => (regexTried /\ tried = Selectors(cfg[i].url))

\* C17 witness: navigation timed out, no candidate matched and the regex
\* over the loaded content gave the price.
C17_Witness ==
    /\ pc = "fetched"
    /\ nav = "timeout"
    /\ regexTried
    /\ price # None

HeaderCount(rows) == Cardinality({r \in 1..Len(rows) : rows[r].kind = "header"})

\* C18: an existing log has exactly one header row, its first; the header is
\* written only by ensure_dirs finding no log; once the log exists no step
\* removes or changes a row, steps only append.
C18_SingleHeader ==
    /\ [](IF logExists
          THEN logRows # <<>> /\ logRows[1] = Header /\ HeaderCount(logRows) = 1
          ELSE logRows = <<>>)
    /\ [][/\ logExists => (logExists' /\ IsPrefix(logRows, logRows')
                                     /\ HeaderCount(logRows') = HeaderCount(logRows))
          /\ HeaderCount(logRows') # HeaderCount(logRows)
                => (~logExists /\ pc = "ensure_dirs")]_vars

\* C18 witness: a second completed run found the log of the first, with data
\* rows, and appended to it.
C18_Witness ==
    /\ RunCompleted
    /\ PreviousRunCompleted
    /\ Len(past[1].log) >= 2
    /\ Len(logRows) > Len(past[1].log)

\* C19: every price alert passed to send_telegram is for a product with a
\* target_price, whose extraction found that price, at or below the target,
\* and whose reading with that price is already in the log.
C19_AlertOnlyAfterLoggedPrice ==
    \A j \in 1..Len(calls) :
        \E k \in 1..Len(cfg) :
            /\ cfg[k].name = calls[j].name
            /\ "target_price" \in DOMAIN cfg[k]
            /\ calls[j].target = cfg[k].target_price
            /\ calls[j].price <= calls[j].target
            /\ k \notin Range(warned)
            /\ \E r \in ReadingsOf(k) : readings[r].price = Some(calls[j].price)
            /\ \E r \in LogRowsOf(k) : logRows[r].price = Some(calls[j].price)

\* C19 witness: an alert was sent for a price equal to the target.
C19_Witness ==
    \E j \in 1..Len(calls) : calls[j].price = calls[j].target

\* C20: when the request of send_telegram fails, the step that made it still
\* ends normally: no error, the log row just appended is kept, and the loop
\* moves on to the next product.
C20_TransportFailureContained ==
    [][(pc = "alert" /\ Len(posts') > Len(posts) /\ ~posts'[Len(posts')].ok) =>
          /\ pc' = "loop" /\ i' = i + 1
          /\ error' = "none" /\ exitCode' = Running
          /\ logRows' = logRows /\ readings' = readings]_vars

\* C20 witness: the alert request for the first product failed, its row is in
\* the log, and the second product was still checked in the completed run.
C20_Witness ==
    /\ RunCompleted
    /\ attempts = <<1, 2>>
    /\ posts # <<>> /\ ~posts[1].ok /\ posts[1].msg.name = cfg[1].name
    /\ LogRowsOf(1) # {}

====
